---- MODULE Spec2Model ----
(***************************************************************************)
(* Model of waitgroup-rs (src/src/lib.rs).                                 *)
(*                                                                         *)
(* A WaitGroup owns an Arc<Inner>; Worker handles are further Arc clones;  *)
(* the WaitGroupFuture returned by wait() holds a Weak<Inner>.  Inner's    *)
(* Drop impl calls AtomicWaker::wake().  poll() upgrades the Weak, and if  *)
(* that succeeds registers the caller's waker in the AtomicWaker, releases *)
(* the upgraded reference and returns Pending.                             *)
(*                                                                         *)
(* Every access to shared memory (the strong count, the AtomicWaker state  *)
(* word, the waker cell) is one step; the parties interleave freely.       *)
(***************************************************************************)
EXTENDS Integers, Naturals, Sequences, FiniteSets, TLC

\* ---- bounds ----
MaxHandles == 3      \* Worker handles created over a run (worker() + clone())
MaxPolls   == 3      \* polls the scheduler makes without a reason (spurious)

\* ---- parties: who can hold a strong reference ----
Group   == 0                    \* the WaitGroup value
Handles == 1..MaxHandles        \* the Worker values, in order of creation
Poller  == MaxHandles + 1       \* the task polling the WaitGroupFuture
Parties == 0..(MaxHandles + 1)

None == 0                       \* Option::None in the waker cell

VARIABLES
    strong,      \* Arc strong count of Inner
    weak,        \* number of Weak<Inner> values (the future's)
    pc,          \* pc[p]: where party p stands
    fut,         \* WaitGroupFuture: "none" | "built" | "alive" | "dropped"
    aw,          \* AtomicWaker state word
    slot,        \* AtomicWaker waker cell: None or the id of a waker
    taken,       \* taken[p]: the waker party p took out of the cell in wake()
    woken,       \* sequence of the wakers invoked so far (wake notifications)
    notified,    \* the scheduler has a wake it has not yet answered by a poll
    polls,       \* polls started; poll number k supplies waker k
    lastResult,  \* result of the last poll that returned: "none"|"Pending"|"Ready"
    firstResult, \* result of the first poll that returned
    lastPending, \* number of the last poll that returned Pending (0: none)
    lastUp,      \* number of the last poll whose Weak::upgrade succeeded (0: none)
    regs,        \* number of wakers stored into the cell by register()
    tdBy,        \* sequence of the parties that entered Inner::drop
    fired,       \* number of completed Inner::drop calls
    zeroAtWait,  \* no Worker handle was alive when wait() was called
    abandoned,   \* the future was dropped while a Worker handle was alive
    obs          \* last workers() call: who asked ("none"|"group"|"future"), n returned

vars == <<strong, weak, pc, fut, aw, slot, taken, woken, notified, polls,
          lastResult, firstResult, lastPending, lastUp, regs, tdBy, fired,
          zeroAtWait, abandoned, obs>>

ghostPoll == <<lastResult, firstResult, lastPending>>

\* ---- helpers ----
Range(s) == { s[i] : i \in DOMAIN s }

LiveHandles == { h \in Handles : pc[h] = "live" }

Unused == { h \in Handles : pc[h] = "unused" }

\* the handle the next worker()/clone() creates
NextHandle == CHOOSE h \in Unused : \A g \in Unused : h <= g

\* the group still holds its own strong reference
GroupHolds == pc[Group] \in {"alive", "downgraded"}

\* the poll holds the reference it got from Weak::upgrade
PollHolds == pc[Poller] \in {"reg_lock", "reg_store", "reg_unlock", "release"}

InTeardown(p) == pc[p] \in {"td_lock", "td_take", "td_invoke"}

\* Arc::clone: the new strong count
IncStrong_NoCount(s) == s

IncStrong(s) == s + 1

\* Weak::upgrade succeeds iff the strong count is not zero
UpgradeOk_Always(s) == TRUE

UpgradeOk(s) == s > 0

\* Arc::drop: the release that takes the count from 1 to 0 drops Inner
IsLast_Never(s) == FALSE

IsLast_Early(s) == s <= 2

IsLast(s) == s = 1

\* AtomicWaker::register: what the cell holds after storing waker w
StoreWaker_KeepFirst(old, w) == IF old = None THEN w ELSE old

StoreWaker(old, w) == w

\* Inner::drop: the waker that wake() invokes, given what take() found
WakeTarget_Nothing(w) == None

WakeTarget(w) == w

\* Waker::wake: the notification sequence after invoking waker w (None: no call)
Invoke(w, seq) == IF w = None THEN seq ELSE Append(seq, w)

\* ---- initial state: after WaitGroup::new() ----
Init ==
    /\ strong = 1
    /\ weak = 0
    /\ pc = [p \in Parties |->
               IF p = Group THEN "alive" ELSE IF p = Poller THEN "idle" ELSE "unused"]
    /\ fut = "none"
    /\ aw = "WAITING"
    /\ slot = None
    /\ taken = [p \in Parties |-> None]
    /\ woken = <<>>
    /\ notified = FALSE
    /\ polls = 0
    /\ lastResult = "none"
    /\ firstResult = "none"
    /\ lastPending = 0
    /\ lastUp = 0
    /\ regs = 0
    /\ tdBy = <<>>
    /\ fired = 0
    /\ zeroAtWait = FALSE
    /\ abandoned = FALSE
    /\ obs = [who |-> "none", n |-> 0]

\* ---- the end of an operation of party p ----
\* A Worker or the WaitGroup is gone after its drop; wait() returns the future
\* it built; poll() returns Pending (this is reached only on the Some arm).
Finish(p) ==
    /\ pc' = [pc EXCEPT ![p] = IF p = Poller THEN "idle" ELSE "gone"]
    /\ fut' = IF p = Group /\ fut = "built" THEN "alive" ELSE fut
    /\ lastResult' = IF p = Poller THEN "Pending" ELSE lastResult
    /\ firstResult' = IF p = Poller /\ firstResult = "none" THEN "Pending" ELSE firstResult
    /\ lastPending' = IF p = Poller THEN polls ELSE lastPending

\* ---- Arc<Inner>::drop by party p ----
\* fetch_sub on the strong count; the party that releases the last reference
\* enters Inner::drop, any other is done.
DropArc(p) ==
    /\ strong' = strong - 1
    /\ IF IsLast(strong)
         THEN /\ pc' = [pc EXCEPT ![p] = "td_lock"]
              /\ tdBy' = Append(tdBy, p)
              /\ UNCHANGED <<fut, ghostPoll>>
         ELSE /\ Finish(p)
              /\ UNCHANGED tdBy

\* ---- WaitGroup::worker ----
Worker ==
    /\ pc[Group] = "alive"
    /\ Unused # {}
    /\ strong' = IncStrong(strong)
    /\ pc' = [pc EXCEPT ![NextHandle] = "live"]
    /\ UNCHANGED <<weak, fut, aw, slot, taken, woken, notified, polls, ghostPoll,
                   lastUp, regs, tdBy, fired, zeroAtWait, abandoned, obs>>

\* ---- Worker::clone (derived) ----
WorkerClone(h) ==
    /\ pc[h] = "live"
    /\ Unused # {}
    /\ strong' = IncStrong(strong)
    /\ pc' = [pc EXCEPT ![NextHandle] = "live"]
    /\ UNCHANGED <<weak, fut, aw, slot, taken, woken, notified, polls, ghostPoll,
                   lastUp, regs, tdBy, fired, zeroAtWait, abandoned, obs>>

\* ---- drop of a Worker ----
WorkerDrop(h) ==
    /\ pc[h] = "live"
    /\ DropArc(h)
    /\ UNCHANGED <<weak, aw, slot, taken, woken, notified, polls, lastUp, regs,
                   fired, zeroAtWait, abandoned, obs>>

\* ---- WaitGroup::wait, first half: Arc::downgrade builds the future ----
WaitDowngrade ==
    /\ pc[Group] = "alive"
    /\ weak' = weak + 1
    /\ fut' = "built"
    /\ pc' = [pc EXCEPT ![Group] = "downgraded"]
    /\ zeroAtWait' = (LiveHandles = {})
    /\ UNCHANGED <<strong, aw, slot, taken, woken, notified, polls, ghostPoll,
                   lastUp, regs, tdBy, fired, abandoned, obs>>

\* ---- WaitGroup::wait, second half: self goes out of scope ----
WaitDropSelf_Leak ==
    /\ pc[Group] = "downgraded"
    /\ Finish(Group)
    /\ UNCHANGED <<strong, tdBy>>
    /\ UNCHANGED <<weak, aw, slot, taken, woken, notified, polls, lastUp, regs,
                   fired, zeroAtWait, abandoned, obs>>

WaitDropSelf ==
    /\ pc[Group] = "downgraded"
    /\ DropArc(Group)
    /\ UNCHANGED <<weak, aw, slot, taken, woken, notified, polls, lastUp, regs,
                   fired, zeroAtWait, abandoned, obs>>

\* ---- drop of a WaitGroup that was never waited on ----
GroupDrop ==
    /\ pc[Group] = "alive"
    /\ DropArc(Group)
    /\ UNCHANGED <<weak, aw, slot, taken, woken, notified, polls, lastUp, regs,
                   fired, zeroAtWait, abandoned, obs>>

\* ---- Inner::drop -> AtomicWaker::wake -> take, by party p ----
\* AtomicWaker (crate atomic_waker, imported at lib.rs:41) guards its waker cell
\* with a state word: WAITING, REGISTERING, WAKING or both flags.  register()
\* and wake() are modelled step by step on that word, so that an overlap of
\* the two, if the program allowed one, would take the crate's fallback paths.
\* state.fetch_or(WAKING): only from WAITING does the caller own the cell
TdLock(p) ==
    /\ pc[p] = "td_lock"
    /\ IF aw = "WAITING"
         THEN /\ aw' = "WAKING"
              /\ pc' = [pc EXCEPT ![p] = "td_take"]
         ELSE /\ aw' = IF aw = "REGISTERING" THEN "REGISTERING|WAKING" ELSE aw
              /\ pc' = [pc EXCEPT ![p] = "td_invoke"]
    /\ UNCHANGED <<strong, weak, fut, slot, taken, woken, notified, polls,
                   ghostPoll, lastUp, regs, tdBy, fired, zeroAtWait, abandoned, obs>>

\* take the waker out of the cell, then state.fetch_and(!WAKING)
TdTake(p) ==
    /\ pc[p] = "td_take"
    /\ taken' = [taken EXCEPT ![p] = slot]
    /\ slot' = None
    /\ aw' = IF aw = "REGISTERING|WAKING" THEN "REGISTERING" ELSE "WAITING"
    /\ pc' = [pc EXCEPT ![p] = "td_invoke"]
    /\ UNCHANGED <<strong, weak, fut, woken, notified, polls, ghostPoll, lastUp,
                   regs, tdBy, fired, zeroAtWait, abandoned, obs>>

\* invoke the waker taken (if any); Inner::drop returns, Inner's fields are
\* dropped, and the operation that released the last reference ends
TdInvoke(p) ==
    /\ pc[p] = "td_invoke"
    /\ woken' = Invoke(WakeTarget(taken[p]), woken)
    /\ notified' = (notified \/ woken' # woken)
    /\ taken' = [taken EXCEPT ![p] = None]
    /\ slot' = None
    /\ fired' = fired + 1
    /\ Finish(p)
    /\ UNCHANGED <<strong, weak, aw, polls, lastUp, regs, tdBy, zeroAtWait, abandoned, obs>>

\* ---- WaitGroupFuture::poll ----
\* The scheduler polls when it has a reason (the first poll of the await, or a
\* wake it received), and at most MaxPolls times without one.
PollNeeded == polls = 0 \/ notified

\* self.inner.upgrade(): None -> Ready; Some(inner) -> go on to register
PollStart ==
    /\ fut = "alive"
    /\ pc[Poller] = "idle"
    /\ \/ PollNeeded /\ polls < MaxPolls + 2
       \/ polls < MaxPolls
    /\ polls' = polls + 1
    /\ notified' = FALSE
    /\ IF UpgradeOk(strong)
         THEN /\ strong' = strong + 1
              /\ pc' = [pc EXCEPT ![Poller] = "reg_lock"]
              /\ lastUp' = polls'
              /\ UNCHANGED ghostPoll
         ELSE /\ lastResult' = "Ready"
              /\ firstResult' = IF firstResult = "none" THEN "Ready" ELSE firstResult
              /\ UNCHANGED <<strong, pc, lastUp, lastPending>>
    /\ UNCHANGED <<weak, fut, aw, slot, taken, woken, regs, tdBy, fired, zeroAtWait, abandoned, obs>>

\* inner.waker.register(cx.waker()): compare_exchange(WAITING, REGISTERING);
\* on WAKING the waker is invoked at once, on REGISTERING nothing is done
RegLock ==
    /\ pc[Poller] = "reg_lock"
    /\ IF aw = "WAITING"
         THEN /\ aw' = "REGISTERING"
              /\ pc' = [pc EXCEPT ![Poller] = "reg_store"]
              /\ UNCHANGED <<woken, notified>>
         ELSE /\ woken' = IF aw = "WAKING" THEN Invoke(polls, woken) ELSE woken
              /\ notified' = (notified \/ aw = "WAKING")
              /\ pc' = [pc EXCEPT ![Poller] = "release"]
              /\ UNCHANGED aw
    /\ UNCHANGED <<strong, weak, fut, slot, taken, polls, ghostPoll, lastUp, regs,
                   tdBy, fired, zeroAtWait, abandoned, obs>>

\* the cell is overwritten with a clone of the caller's waker
RegStore ==
    /\ pc[Poller] = "reg_store"
    /\ slot' = StoreWaker(slot, polls)
    /\ regs' = regs + 1
    /\ pc' = [pc EXCEPT ![Poller] = "reg_unlock"]
    /\ UNCHANGED <<strong, weak, fut, aw, taken, woken, notified, polls, ghostPoll,
                   lastUp, tdBy, fired, zeroAtWait, abandoned, obs>>

\* compare_exchange(REGISTERING, WAITING); if a wake came in meanwhile the
\* waker just stored is taken back and invoked
RegUnlock ==
    /\ pc[Poller] = "reg_unlock"
    /\ IF aw = "REGISTERING"
         THEN /\ aw' = "WAITING"
              /\ UNCHANGED <<slot, woken, notified>>
         ELSE /\ aw' = "WAITING"
              /\ woken' = Invoke(slot, woken)
              /\ notified' = (notified \/ slot # None)
              /\ slot' = None
    /\ pc' = [pc EXCEPT ![Poller] = "release"]
    /\ UNCHANGED <<strong, weak, fut, taken, polls, ghostPoll, lastUp, regs, tdBy,
                   fired, zeroAtWait, abandoned, obs>>

\* the Some arm ends: the upgraded Arc is dropped and Pending is returned
PollRelease ==
    /\ pc[Poller] = "release"
    /\ DropArc(Poller)
    /\ UNCHANGED <<weak, aw, slot, taken, woken, notified, polls, lastUp, regs,
                   fired, zeroAtWait, abandoned, obs>>

\* ---- drop of the WaitGroupFuture (between polls) ----
FutureDrop ==
    /\ fut = "alive"
    /\ pc[Poller] = "idle"
    /\ fut' = "dropped"
    /\ weak' = weak - 1
    /\ abandoned' = (LiveHandles # {})
    /\ UNCHANGED <<strong, pc, aw, slot, taken, woken, notified, polls, ghostPoll,
                   lastUp, regs, tdBy, fired, zeroAtWait, obs>>

\* everything but the record of the last workers() call
state == <<strong, weak, pc, fut, aw, slot, taken, woken, notified, polls,
           lastResult, firstResult, lastPending, lastUp, regs, tdBy, fired,
           zeroAtWait, abandoned>>

\* ---- WaitGroup::workers: Arc::strong_count(&self.inner) - 1 ----
GroupCount_NoReserve(s) == s

GroupCount(s) == s - 1

GroupWorkers ==
    /\ pc[Group] = "alive"
    /\ obs' = [who |-> "group", n |-> GroupCount(strong)]
    /\ UNCHANGED state

\* ---- WaitGroupFuture::workers: Weak::strong_count(&self.inner) ----
\* (&self: never while a poll, which has the future by &mut, is running)
FutureCount_LessOne(s) == IF s > 0 THEN s - 1 ELSE 0

FutureCount(s) == s

FutureWorkers ==
    /\ fut = "alive"
    /\ pc[Poller] = "idle"
    /\ obs' = [who |-> "future", n |-> FutureCount(strong)]
    /\ UNCHANGED state

Next ==
    \/ \E h \in Handles : WorkerClone(h)
    \/ Worker
    \/ \E h \in Handles : WorkerDrop(h)
    \/ WaitDowngrade
    \/ WaitDropSelf
    \/ GroupDrop
    \/ \E p \in Parties : TdLock(p)
    \/ \E p \in Parties : TdTake(p)
    \/ \E p \in Parties : TdInvoke(p)
    \/ PollStart
    \/ RegLock
    \/ RegStore
    \/ RegUnlock
    \/ PollRelease
    \/ FutureDrop
    \/ GroupWorkers
    \/ FutureWorkers

Spec == Init /\ [][Next]_vars

\* Fairness the code's environment gives: every started operation runs to its
\* end, every Worker is eventually dropped, wait() returns, and the scheduler
\* polls a future it has just been given or has received a wake for.
Fairness ==
    /\ \A h \in Handles : WF_vars(WorkerDrop(h))
    /\ WF_vars(WaitDropSelf)
    /\ \A p \in Parties : WF_vars(TdLock(p)) /\ WF_vars(TdTake(p)) /\ WF_vars(TdInvoke(p))
    /\ WF_vars(PollNeeded /\ PollStart)
    /\ WF_vars(RegLock) /\ WF_vars(RegStore) /\ WF_vars(RegUnlock) /\ WF_vars(PollRelease)

LiveSpec == Init /\ [][Next]_vars /\ Fairness

TypeOK ==
    /\ strong \in 0..(MaxHandles + 2)
    /\ weak \in 0..1
    /\ fut \in {"none", "built", "alive", "dropped"}
    /\ aw \in {"WAITING", "REGISTERING", "WAKING", "REGISTERING|WAKING"}
    /\ slot \in 0..(MaxPolls + 2)
    /\ polls \in 0..(MaxPolls + 2)
    /\ lastResult \in {"none", "Pending", "Ready"}

AllHandlesGone == \A h \in Handles : pc[h] = "gone"

\* C1: no early completion. A poll has returned Ready only if no Worker handle
\* created by worker() or clone() is still alive and the group has released its
\* own reference; so with N workers Ready never comes before the Nth release.
C1_NoEarlyReady ==
    lastResult = "Ready" => (LiveHandles = {} /\ ~GroupHolds)

\* C1 witness: all MaxHandles handles were created and dropped, the waiter was
\* first told Pending and then Ready.
C1_Witness ==
    lastResult = "Ready" /\ AllHandlesGone /\ lastPending > 0

\* C2: eventual completion. Under Fairness a future that exists (and is not
\* abandoned) eventually has a poll return Ready, whatever the interleaving of
\* the last Worker drop with the poll's upgrade and registration.
C2_EventuallyReady ==
    (fut = "alive") ~> (lastResult = "Ready" \/ fut = "dropped")

\* C2 witness: the last Worker was dropped while a poll held its upgraded
\* reference (the poll itself tore the state down), and a later poll was Ready.
C2_Witness ==
    lastResult = "Ready" /\ tdBy = <<Poller>> /\ woken # <<>>

\* C3: register/fire linearizability. The fire finds the capability of the last
\* poll that resolved the weak reference; once the fire is over no poll holds a
\* resolved reference or stores a capability, and a caller that was told
\* Pending has had its capability invoked.
C3_RegisterFire ==
    /\ \A p \in Parties : (pc[p] = "td_invoke" /\ lastUp > 0) => taken[p] = lastUp
    /\ fired > 0 => (~PollHolds /\ slot = None)
    /\ (fired > 0 /\ pc[Poller] = "idle" /\ lastResult = "Pending")
          => lastPending \in Range(woken)

\* C3 witness: a Worker's drop fired the capability of a suspended waiter.
C3_Witness ==
    /\ fired > 0 /\ Len(tdBy) = 1 /\ tdBy[1] \in Handles
    /\ lastResult = "Pending" /\ woken = <<lastPending>>

\* C4: the teardown (Inner::drop) is entered at most once, never while the
\* WaitGroup or a Worker handle is alive, and it is entered as soon as no
\* party holds a strong reference; once no teardown is in progress it has
\* completed exactly once.
C4_FireOnce ==
    /\ Len(tdBy) <= 1 /\ fired <= 1
    /\ tdBy # <<>> => (LiveHandles = {} /\ ~GroupHolds)
    /\ (LiveHandles = {} /\ ~GroupHolds /\ ~PollHolds) => Len(tdBy) = 1
    /\ (tdBy # <<>> /\ \A p \in Parties : ~InTeardown(p)) => fired = 1

\* C4 witness: clones and drops of all handles raced with polls and the
\* teardown ran.
C4_Witness ==
    fired = 1 /\ AllHandlesGone /\ polls > 1

\* C5, state part: at most one wake is ever delivered, and exactly one once the
\* teardown is over if some poll resolved the weak reference (was suspended).
C5_State ==
    /\ Len(woken) <= 1
    /\ (lastUp > 0 /\ fired > 0) => Len(woken) = 1

\* C5, step part: a poll started after the wake returns Ready at once.
C5_Step ==
    (polls' = polls + 1 /\ woken # <<>>) => (lastResult' = "Ready" /\ pc'[Poller] = "idle")

\* C5: exactly one wake. A waiter that was polled while a Worker was alive gets
\* exactly one wake notification once all workers are released, and the first
\* poll after the wake returns Ready.
C5_ExactlyOneWake ==
    []C5_State /\ [][C5_Step]_vars

\* C5 witness: suspended, woken once, polled again, Ready.
C5_Witness ==
    Len(woken) = 1 /\ lastResult = "Ready" /\ lastPending > 0 /\ notified = FALSE

\* C6 (as stated): the strong count is the number of live Worker handles plus
\* one for an unconverted group, and nothing for the waiter whatever it does.
C6_AsClaimed ==
    strong = Cardinality(LiveHandles) + (IF GroupHolds THEN 1 ELSE 0)

\* C6 (amended): the strong count is the number of live Worker handles, plus
\* one while the group holds its own reference, plus one while a poll holds the
\* reference it obtained from a successful Weak::upgrade.
C6_CountInvariant ==
    strong = Cardinality(LiveHandles) + (IF GroupHolds THEN 1 ELSE 0)
                                      + (IF PollHolds THEN 1 ELSE 0)

\* C6 witness: a poll in progress next to two live Worker handles.
C6_Witness ==
    PollHolds /\ Cardinality(LiveHandles) = 2 /\ strong = 3

\* C7 (as stated): the waiter never holds the count above zero and never runs
\* the teardown.
C7_AsClaimed ==
    /\ (LiveHandles = {} /\ ~GroupHolds) => strong = 0
    /\ Poller \notin Range(tdBy)

\* C7 (amended), state part: a future that is not in the middle of a poll never
\* keeps the count above zero; a poll in progress holds exactly one reference.
C7_State ==
    /\ (LiveHandles = {} /\ ~GroupHolds /\ ~PollHolds) => (strong = 0 /\ tdBy # <<>>)
    /\ (LiveHandles = {} /\ ~GroupHolds /\ PollHolds) => (strong = 1 /\ tdBy = <<>>)
    /\ fut \in {"none", "built", "dropped"} => ~PollHolds

\* C7 (amended), step part: the teardown is entered in the very step that takes
\* the count to zero, by the party that released the last reference.
C7_Step ==
    /\ (strong > 0 /\ strong' = 0) <=> (tdBy' # tdBy)
    /\ tdBy' # tdBy =>
          /\ tdBy' = Append(tdBy, tdBy'[Len(tdBy')])
          /\ LET p == tdBy'[Len(tdBy')] IN
               /\ pc'[p] = "td_lock"
               /\ p \in Handles => pc[p] = "live"
               /\ p = Group => pc[p] \in {"alive", "downgraded"}
               /\ p = Poller => pc[p] = "release"

\* C7: who runs the teardown.
C7_TeardownParty ==
    []C7_State /\ [][C7_Step]_vars

\* C7 witness: the poll was the party that ran the teardown.
C7_Witness ==
    tdBy = <<Poller>> /\ fired = 1 /\ AllHandlesGone

\* C8: zero workers. If no Worker is alive when wait() is called, the state is
\* torn down inside wait() by the group's own release, and every poll of the
\* returned future is Ready at once: nothing is registered, nothing is woken.
C8_ZeroWorkers ==
    (zeroAtWait /\ fut \in {"alive", "dropped"}) =>
        /\ tdBy = <<Group>> /\ fired = 1 /\ strong = 0
        /\ regs = 0 /\ slot = None /\ woken = <<>>
        /\ pc[Poller] = "idle"
        /\ firstResult \in {"none", "Ready"}
        /\ lastResult \in {"none", "Ready"}

\* C8 witness: wait() with no live Worker, then a first poll.
C8_Witness ==
    zeroAtWait /\ firstResult = "Ready" /\ polls = 1

\* C9: Done is irreversible. After a Ready every poll is Ready again and
\* touches nothing (no count change, no registration, no wake), and a strong
\* count of zero stays zero.
C9_Step ==
    /\ lastResult = "Ready" => lastResult' = "Ready"
    /\ (lastResult = "Ready" /\ polls' # polls) =>
          /\ pc'[Poller] = "idle"
          /\ strong' = strong /\ slot' = slot /\ aw' = aw
          /\ regs' = regs /\ woken' = woken
    /\ strong = 0 => strong' = 0

C9_DoneIrreversible ==
    [][C9_Step]_vars

\* C9 witness: the first poll was Ready and the future was polled again.
C9_Witness ==
    firstResult = "Ready" /\ lastResult = "Ready" /\ polls >= 2

\* C10: re-poll coalescing. Every poll that resolves the weak reference returns
\* Pending and leaves its own capability in the slot, replacing the one before;
\* the teardown invokes at most one capability, that of the most recent such
\* poll, never one of an earlier poll.
C10_Coalescing ==
    /\ Len(woken) <= 1
    /\ \A i \in DOMAIN woken : woken[i] = lastUp
    /\ pc[Poller] = "idle" => lastPending = lastUp
    /\ (pc[Poller] = "idle" /\ lastPending > 0 /\ tdBy = <<>>) => slot = lastPending
    /\ slot # None => slot \in {lastPending, lastUp}

\* C10 witness: the capability of the third poll was invoked, those of the
\* first two polls were not.
C10_Witness ==
    woken = <<3>> /\ lastPending = 3 /\ firstResult = "Pending"

\* C11, state part: after the future was dropped with a Worker still alive,
\* the future holds nothing, the teardown is entered at most once, by the last
\* Worker drop, and once it is over no capability is stored anywhere; what it
\* invoked, if anything, is the capability the abandoned waiter left behind.
C11_State ==
    abandoned =>
        /\ fut = "dropped" /\ weak = 0 /\ pc[Poller] = "idle"
        /\ Len(tdBy) <= 1 /\ fired <= 1
        /\ LiveHandles = {} <=> tdBy # <<>>
        /\ tdBy # <<>> => tdBy[1] \in Handles
        /\ fired = 1 => /\ strong = 0 /\ slot = None /\ aw = "WAITING"
                        /\ \A p \in Parties : taken[p] = None /\ ~InTeardown(p)
        /\ Len(woken) <= 1
        /\ \A i \in DOMAIN woken : woken[i] = lastPending

\* C11, progress part: every Worker drop after the abandonment completes and
\* the teardown runs to its end.
C11_Live ==
    abandoned ~> (fired = 1 /\ LiveHandles = {} /\ slot = None)

\* C11: early abandonment is safe.
C11_Abandon ==
    []C11_State /\ C11_Live

\* C11 witness: the waiter was suspended, dropped with a Worker alive, and the
\* last Worker drop then fired the capability it had left in the slot.
C11_Witness ==
    abandoned /\ fired = 1 /\ lastPending > 0 /\ woken = <<lastPending>>

\* C12, state part: while the WaitGroup exists the strong count is at least 1
\* and the count minus one is the number of live Worker handles.
C12_State ==
    pc[Group] = "alive" =>
        /\ strong >= 1
        /\ GroupCount(strong) = Cardinality(LiveHandles)

\* C12, step part: a call of WaitGroup::workers returns the number of live
\* Worker handles (no underflow) and changes nothing.
C12_Step ==
    (obs' # obs /\ obs'.who = "group") =>
        /\ obs'.n = Cardinality(LiveHandles)
        /\ obs'.n >= 0
        /\ UNCHANGED state

\* C12: WaitGroup::workers is the number of live Worker handles.
C12_GroupWorkers ==
    []C12_State /\ [][C12_Step]_vars

\* C12 witness: workers() returned 2 after three handles were created (by
\* worker() or clone()) and the first one dropped.
C12_Witness ==
    /\ obs = [who |-> "group", n |-> 2]
    /\ pc[Group] = "alive" /\ pc[1] = "gone" /\ Cardinality(LiveHandles) = 2

\* C13, state part: whenever WaitGroupFuture::workers can be called, its value
\* is the number of live Worker handles, 0 after a Ready, and not 0 if a poll
\* made now would resolve the weak reference.
C13_State ==
    (fut = "alive" /\ pc[Poller] = "idle") =>
        /\ FutureCount(strong) = Cardinality(LiveHandles)
        /\ lastResult = "Ready" => FutureCount(strong) = 0
        /\ UpgradeOk(strong) => FutureCount(strong) > 0

\* C13, step part: a call returns that number and changes nothing.
C13_Step ==
    (obs' # obs /\ obs'.who = "future") =>
        /\ obs'.n = Cardinality(LiveHandles)
        /\ lastResult = "Ready" => obs'.n = 0
        /\ UNCHANGED state

\* C13: WaitGroupFuture::workers is the number of live Worker handles.
C13_FutureWorkers ==
    []C13_State /\ [][C13_Step]_vars

\* C13 witness: workers() returned 0 after the waiter, once suspended, got Ready.
C13_Witness ==
    obs = [who |-> "future", n |-> 0] /\ lastResult = "Ready" /\ lastPending > 0

\* C14: the group's own reference keeps the state alive. While the WaitGroup
\* has not released its reference (in wait() or by being dropped) the strong
\* count is at least 1 and the teardown has not begun, also when every Worker
\* created so far is gone; and the teardown never begins with a Worker alive,
\* so a Worker spawned late is waited for as well.
C14_GroupKeepsAlive ==
    /\ GroupHolds => (strong >= 1 /\ tdBy = <<>> /\ fired = 0 /\ woken = <<>>)
    /\ (pc[Group] = "alive" /\ Unused # {}) => ENABLED Worker
    /\ tdBy # <<>> => LiveHandles = {}

\* C14 witness: the first Worker is gone, no Worker is alive, the group is, and
\* worker() can be called again.
C14_Witness ==
    /\ pc[Group] = "alive" /\ pc[1] = "gone" /\ LiveHandles = {}
    /\ strong = 1 /\ ENABLED Worker

\* C15: register and fire never overlap. No party is inside Inner::drop while
\* a poll holds a resolved reference; the AtomicWaker never has both flags set;
\* REGISTERING is set only before the teardown begins, WAKING only by it.
C15_NoOverlap ==
    /\ (\E p \in Parties : InTeardown(p)) => ~PollHolds
    /\ tdBy # <<>> => ~PollHolds
    /\ aw # "REGISTERING|WAKING"
    /\ aw = "REGISTERING" => (pc[Poller] \in {"reg_store", "reg_unlock"} /\ tdBy = <<>>)
    /\ aw = "WAKING" => (\E p \in Parties : pc[p] = "td_take")

\* C15 witness: a Worker's teardown is inside wake() after a register completed.
C15_Witness ==
    \E h \in Handles : pc[h] = "td_take" /\ aw = "WAKING" /\ regs > 0 /\ slot # None

\* the waiter is suspended: its last poll returned Pending, no wake delivered
Suspended ==
    pc[Poller] = "idle" /\ lastResult = "Pending" /\ woken = <<>>

\* C16 (as stated): a suspended waiter implies a live state (count > 0, no
\* teardown begun) whose slot holds the capability of the last poll.
C16_AsClaimed ==
    Suspended => (strong > 0 /\ tdBy = <<>> /\ slot = lastPending)

\* C16 (amended): for a suspended waiter, either no teardown has begun, the
\* count is above zero and the slot holds the capability of the last poll; or
\* the last Worker drop has taken the count to zero and its teardown is still
\* on the way to the wake, the capability being in the slot or already taken
\* out of it by that teardown.
C16_Suspended ==
    Suspended =>
        IF tdBy = <<>>
          THEN strong > 0 /\ LiveHandles # {} /\ slot = lastPending
          ELSE /\ strong = 0 /\ fired = 0
               /\ \E h \in Handles :
                     /\ tdBy = <<h>> /\ InTeardown(h)
                     /\ IF pc[h] = "td_invoke"
                          THEN slot = None /\ taken[h] = lastPending
                          ELSE slot = lastPending

\* C16 witness: suspended after a re-poll, state alive, slot holds capability 2.
C16_Witness ==
    Suspended /\ tdBy = <<>> /\ lastPending = 2 /\ slot = 2

\* C17, state part: a poll inside the teardown is the only party ever to run
\* it, no Worker is left, and the capability on its way to the wake is the one
\* this poll registered; afterwards exactly that capability has been invoked.
C17_State ==
    /\ InTeardown(Poller) =>
          /\ tdBy = <<Poller>> /\ strong = 0 /\ LiveHandles = {}
          /\ lastUp = polls /\ woken = <<>>
          /\ IF pc[Poller] = "td_invoke" THEN taken[Poller] = polls ELSE slot = polls
    /\ (Poller \in Range(tdBy) /\ ~InTeardown(Poller)) =>
          /\ pc[Poller] = "idle" /\ fired = 1
          /\ lastPending = lastUp /\ woken = <<lastPending>>

\* C17, step part: a Worker dropped while a poll holds its resolved reference
\* does not run the teardown; the poll that ran it returns Pending with its own
\* capability invoked; the next poll returns Ready.
C17_Step ==
    /\ (PollHolds /\ \E h \in Handles : pc[h] = "live" /\ pc'[h] # "live") =>
          (tdBy' = tdBy /\ strong' >= 1)
    /\ (pc[Poller] = "td_invoke" /\ pc'[Poller] = "idle") =>
          /\ lastResult' = "Pending" /\ lastPending' = polls
          /\ woken' = <<polls>> /\ notified'
          /\ LiveHandles = {}
    /\ (Poller \in Range(tdBy) /\ polls' = polls + 1) => lastResult' = "Ready"

\* C17: self-wake on a racing last drop.
C17_SelfWake ==
    []C17_State /\ [][C17_Step]_vars

\* C17 witness: the poll tore the state down, woke itself, returned Pending and
\* the poll after it returned Ready.
C17_Witness ==
    /\ tdBy = <<Poller>> /\ AllHandlesGone
    /\ firstResult = "Pending" /\ lastResult = "Ready" /\ woken = <<lastPending>>
====
